---- MODULE Spec2Model ----
(***************************************************************************)
(* A model of arkivo's synchronization engine (lib/sync.js: Session and    *)
(* Synchronizer) and of its stream listener (lib/listener.js: Listener).   *)
(*                                                                         *)
(* The Zotero API server, the stream and the plugins are the environment:  *)
(* the server holds a library (a version number and the versions of its    *)
(* items) that may change between any two requests of a session.           *)
(***************************************************************************)
EXTENDS Integers, Sequences, FiniteSets, TLC

VARIABLES
  remoteVersion,  \* the library version the Zotero server reports
  remoteItems,    \* the server's items: key -> version of the item
  changes,        \* remote changes the environment may still make
  subVersion,     \* Subscription.version, the persisted version
  subVersions,    \* Subscription.versions, the persisted manifest
  session,        \* run -> the Session of that synchronize() call
  pending,        \* Listener.pending
  current,        \* Listener.current
  adds,           \* the calls of Listener.add(): subscription and promise
  removes,        \* the calls of Listener.remove(): data and promise
  emitted,        \* the events the Listener emitted: <<event, id>> -> count
  updating        \* <<data>> while Listener.updated(data) is in its loop

vars == <<remoteVersion, remoteItems, changes, subVersion, subVersions, session,
          pending, current, adds, removes, emitted, updating>>

\* The variables of the synchronizer and those of the listener.
Sync == <<remoteVersion, remoteItems, changes, subVersion, subVersions, session>>

Lis == <<pending, current, adds, removes, emitted, updating>>

(***************************************************************************)
(* Bounds of the model and constants of the program.                       *)
(***************************************************************************)
\* The number of remote changes the environment makes in one behaviour.
MaxChanges == 4

\* The number of remote changes when two synchronize() calls overlap.
MaxChangesOverlap == 1

\* The calls of Listener.add() and of Listener.remove() in one behaviour.
MaxAdds == 2

MaxRemoves == 1

\* The updated events the Listener emits in one behaviour.
MaxUpdates == 2

\* The item versions of the manifests diff() is called with.
MaxItemVersion == 3
MaxFiles == 2

\* var MAX_BATCH_SIZE = 50;
MAX_BATCH_SIZE == 50

\* if (retry == null) retry = 3;
DefaultRetry == 3

\* InterruptedError.prototype.resume = 5000;
RESUME == 5000

\* The synchronize() calls that may be in progress at the same time.
Runs == {"r1", "r2"}

\* The keys of a large library's items without parent and children.
PlainKeys ==
  <<"k01", "k02", "k03", "k04", "k05", "k06", "k07", "k08",
    "k09", "k10", "k11", "k12", "k13", "k14", "k15", "k16",
    "k17", "k18", "k19", "k20", "k21", "k22", "k23", "k24",
    "k25", "k26", "k27", "k28", "k29", "k30", "k31", "k32",
    "k33", "k34", "k35", "k36", "k37", "k38", "k39", "k40",
    "k41", "k42", "k43", "k44", "k45", "k46", "k47", "k48",
    "k49", "k50">>

\* The item keys of the remote library, in the order the server lists them:
\* "a", the items of a large library, and "c", the child item of "a".
KeyOrder == <<"a">> \o PlainKeys \o <<"c">>

Keys == {KeyOrder[x] : x \in 1..Len(KeyOrder)}

\* The keys of the small library: an item and its child item.
SmallKeys == {"a", "c"}

\* The keys of S in the order of KeyOrder; when S holds keys of the small
\* library only, the others need not be looked at.
Sorted(S) ==
  LET in(k) == k \in S
  IN SelectSeq(IF S \subseteq SmallKeys THEN <<"a", "c">> ELSE KeyOrder, in)

\* The elements of a sequence.
Range(seq) == {seq[x] : x \in 1..Len(seq)}

None == "none"

\* A version that is undefined.
Undef == -1

Interrupted == "Interrupted"

Fatal == "Fatal"

PluginFailed == "PluginFailed"

\* message.type of a response; "reject" stands for a request that fails.
MsgTypes == {"json", "text", "reject"}

\* An object without properties.
EmptyMap == [k \in {} |-> 0]

\* item.children of an item whose children were not stored inline.
NoChildren == <<None>>

\* The subscription's plugin descriptors, by name, and the registered plugins.
SubPlugins == <<"p1", "unknown", "p2">>

Available == {"p1", "p2"}

(***************************************************************************)
(* The remote library.                                                     *)
(***************************************************************************)
\* item.data.parentItem: "c" is a child item (an attachment) of "a".
ParentOf(k) == IF k = "c" THEN "a" ELSE None

Put(f, k, v) == [x \in DOMAIN f \cup {k} |-> IF x = k THEN v ELSE f[x]]

Without(f, S) == [x \in DOMAIN f \ S |-> f[x]]

\* extend(target, source) of lib/common.js: copies source's properties.
Extend(f, g) == [x \in DOMAIN f \cup DOMAIN g |-> IF x \in DOMAIN g THEN g[x] ELSE f[x]]

RemoteKeys(items) == Sorted(DOMAIN items)

RemoteChildren(items, parent) ==
  Sorted({k \in DOMAIN items : ParentOf(k) = parent})

\* The payload of item k as the server sends it (format json, include data).
Payload(items, k) ==
  [key |-> k, version |-> items[k], parentItem |-> ParentOf(k),
   numChildren |-> Len(RemoteChildren(items, k)), children |-> NoChildren]

\* A page of the version manifest: the keys at positions from..to.
ManifestPage(items, from, to) ==
  LET ks == RemoteKeys(items)
      sel == {ks[x] : x \in (from..to) \cap (1..Len(ks))}
  IN [k \in sel |-> items[k]]

\* The items the server returns for a batch of keys: those that exist.
BatchData(items, batch) ==
  LET ks == Sorted({k \in DOMAIN items : \E x \in 1..Len(batch) : batch[x] = k})
  IN [x \in 1..Len(ks) |-> Payload(items, ks[x])]

ChildrenData(items, parent) ==
  LET ks == RemoteChildren(items, parent)
  IN [x \in 1..Len(ks) |-> Payload(items, ks[x])]

(***************************************************************************)
(* Session.                                                                *)
(***************************************************************************)
\* function Session(subscription, synchronizer), with the locals of the
\* coroutines that are suspended at a yield:
\*   pc       where the run of synchronize() is suspended
\*   skip, retry             the arguments of execute()
\*   offset   the manifest keys received so far (the cursor of message.next)
\*   keys, i, batch          the locals of download()
\*   stack    the frames of receive(): the items of a message, the index j
\*            and whether keys was passed (the top-level call)
\*   error, resume           the error caught by execute() and its delay
\*   queue, running          the positions of the subscription's plugins that
\*            B.map has not yet mapped, and the one whose plugin is running
\*   files    the keys of the file requests of attachment() in flight
\* and, for the record only:
\*   fetched  the keys attachment() has sent a file request for, in order
\*   stored   the keys attachment() has assigned in attachments, in order
\*   attempts the calls of update() made by this execute()
\*   batches  the item requests sent by the current download()
\*   requests the batches of keys the current download() has requested
\*   skipped  the keys the current download() passed over as cached
\*   rewritten  the keys whose entry in items receive() replaced by a
\*            payload of the same version, each with whether the payload
\*            came in a batch of download() (or else with the children)
\*   omitted  the keys of the current download()'s requests that the
\*            server's answer left out
\*   grown    the parent keys receive() pushed to the keys of the current
\*            download(), each with the number of requests sent before
\*   checked  the arguments of check() when the last step called it
\*   started  the plugins started, in order
\*   persisted  whether synchronize() called sub.update()
\*   unmodified whether the last update() was answered with unmodified
\*   before   the subscription's version and versions when the run began
Session ==
  [pc |-> "idle", skip |-> FALSE, retry |-> DefaultRetry,
   items |-> EmptyMap, attachments |-> EmptyMap,
   created |-> <<>>, updated |-> <<>>, deleted |-> <<>>,
   version |-> Undef, versions |-> EmptyMap,
   offset |-> 0, keys |-> <<>>, i |-> 0, batch |-> <<>>, stack |-> <<>>,
   error |-> None, resume |-> 0, queue |-> {}, running |-> 0,
   attempts |-> 0, batches |-> 0, checked |-> <<>>, started |-> <<>>,
   requests |-> <<>>, grown |-> <<>>, skipped |-> <<>>, rewritten |-> {},
   files |-> <<>>, fetched |-> <<>>, stored |-> <<>>, omitted |-> {},
   persisted |-> FALSE, unmodified |-> FALSE, before |-> <<0, EmptyMap>>]

\* modified with >= in place of >.
ModifiedLoose(s, stored) == s.version # Undef /\ s.version >= stored

\* Session.prototype.modified
Modified(s, stored) == s.version # Undef /\ s.version > stored

\* check() that also accepts a version newer than the session's.
CheckLoose(version, v) == version = Undef \/ version <= v

\* Session.prototype.check: TRUE when it returns true, FALSE when it throws.
Check(version, v) == version = Undef \/ version = v

\* diff() without the reset of created, updated and deleted: the keys are
\* pushed to what the arrays held before.
DiffAccumulate(s, versions, earlier) ==
  LET isUpdated == {k \in DOMAIN versions \cap DOMAIN earlier :
                      versions[k] > earlier[k]}
      isCreated == DOMAIN versions \ DOMAIN earlier
      isDeleted == DOMAIN earlier \ DOMAIN versions
  IN [s EXCEPT !.created = @ \o Sorted(isCreated),
               !.updated = @ \o Sorted(isUpdated),
               !.deleted = @ \o Sorted(isDeleted)]

\* Session.prototype.diff
Diff(s, versions, earlier) ==
  LET isUpdated == {k \in DOMAIN versions \cap DOMAIN earlier :
                      versions[k] > earlier[k]}
      isCreated == DOMAIN versions \ DOMAIN earlier
      isDeleted == DOMAIN earlier \ DOMAIN versions
  IN [s EXCEPT !.created = Sorted(isCreated),
               !.updated = Sorted(isUpdated),
               !.deleted = Sorted(isDeleted)]

\* The test with && in place of ||.
RethrowBoth(retry, error) == retry = 0 /\ error # Interrupted

\* The test of execute()'s catch clause: rethrow the error?
Rethrow(retry, error) == retry = 0 \/ error # Interrupted

\* A catch clause that drops the items downloaded so far.
CatchDiscard(s, error) ==
  LET u == [s EXCEPT !.offset = 0, !.keys = <<>>, !.i = 0, !.batch = <<>>,
                     !.stack = <<>>, !.error = error, !.items = EmptyMap]
  IN IF Rethrow(s.retry, error)
     THEN [u EXCEPT !.pc = "failed"]
     ELSE [u EXCEPT !.pc = "delay", !.resume = RESUME]

\* A catch clause that returns instead of throwing the error again.
CatchSwallow(s, error) ==
  LET u == [s EXCEPT !.offset = 0, !.keys = <<>>, !.i = 0, !.batch = <<>>,
                     !.stack = <<>>, !.error = error]
  IN IF Rethrow(s.retry, error)
     THEN [u EXCEPT !.pc = "executed"]
     ELSE [u EXCEPT !.pc = "delay", !.resume = RESUME]

\* An error thrown inside execute()'s try block: the coroutines of update(),
\* download() and receive() are unwound, then the catch clause runs up to
\* its first yield.
Catch(s, error) ==
  LET u == [s EXCEPT !.offset = 0, !.keys = <<>>, !.i = 0, !.batch = <<>>,
                     !.stack = <<>>, !.error = error]
  IN IF Rethrow(s.retry, error)
     THEN [u EXCEPT !.pc = "failed"]
     ELSE [u EXCEPT !.pc = "delay", !.resume = RESUME]

\* execute() returns this.
Executed(s) ==
  [s EXCEPT !.pc = "executed", !.offset = 0, !.keys = <<>>, !.i = 0,
            !.batch = <<>>, !.stack = <<>>]

\* The inner for loop of download() with > in place of >= in the test of
\* the batch length.
RECURSIVE SelectBatchOver(_, _, _, _)
SelectBatchOver(s, keys, i, batch) ==
  IF i > Len(keys)
  THEN [i |-> i, batch |-> batch]
  ELSE LET key == keys[i]
           wanted == IF key \in DOMAIN s.versions THEN s.versions[key] ELSE Undef
           stale == key \notin DOMAIN s.items \/ s.items[key].version # wanted
       IN IF ~stale
          THEN SelectBatchOver(s, keys, i + 1, batch)
          ELSE IF Len(batch) + 1 > MAX_BATCH_SIZE
               THEN [i |-> i + 1, batch |-> Append(batch, key)]
               ELSE SelectBatchOver(s, keys, i + 1, Append(batch, key))

\* The inner for loop of download(): the batch selected from position i on.
RECURSIVE SelectBatch(_, _, _, _)
SelectBatch(s, keys, i, batch) ==
  IF i > Len(keys)
  THEN [i |-> i, batch |-> batch]
  ELSE LET key == keys[i]
           wanted == IF key \in DOMAIN s.versions THEN s.versions[key] ELSE Undef
           stale == key \notin DOMAIN s.items \/ s.items[key].version # wanted
       IN IF ~stale
          THEN SelectBatch(s, keys, i + 1, batch)
          ELSE IF Len(batch) + 1 >= MAX_BATCH_SIZE
               THEN [i |-> i + 1, batch |-> Append(batch, key)]
               ELSE SelectBatch(s, keys, i + 1, Append(batch, key))

\* The while loop of download() up to its next yield: it requests the next
\* batch, or returns when no key is left.
DownloadLoop(s) ==
  LET sel == SelectBatch(s, s.keys, s.i, <<>>)
      left(k) == \A x \in 1..Len(sel.batch) : sel.batch[x] # k
      passed == SelectSeq(SubSeq(s.keys, s.i, sel.i - 1), left)
  IN IF sel.batch = <<>>
     THEN Executed([s EXCEPT !.skipped = @ \o passed])
     ELSE [s EXCEPT !.pc = "batch", !.i = sel.i, !.batch = sel.batch,
                    !.batches = @ + 1, !.requests = Append(@, sel.batch),
                    !.skipped = @ \o passed]

\* Session.prototype.download, called without keys, up to its first yield.
Download(s) ==
  LET keys == s.updated \o s.created
      s0 == [s EXCEPT !.batches = 0, !.requests = <<>>, !.grown = <<>>,
                      !.skipped = <<>>, !.omitted = {}]
  IN IF Len(keys) = 0
     THEN Executed(s0)
     ELSE DownloadLoop([s0 EXCEPT !.keys = keys, !.i = 1])

\* execute() that downloads whatever skip says.
AfterUpdateDownload(s) == Download(s)

\* execute() after update() has returned.
AfterUpdate(s) == IF s.skip THEN Executed(s) ELSE Download(s)

\* receive() that finds the parent key missing but does not push it.
RECURSIVE ReceiveLoopForget(_)
ReceiveLoopForget(s) ==
  LET n == Len(s.stack)
      f == s.stack[n]
  IN IF f.j > Len(f.items)
     THEN IF n = 1
          THEN \* the call made by download() returns
               DownloadLoop([s EXCEPT !.stack = <<>>])
          ELSE \* item.children = the items received; the caller goes on
               LET p == s.stack[n - 1]
                   parent == p.items[p.j].key
                   got == [x \in 1..Len(f.items) |-> f.items[x].key]
               IN ReceiveLoopForget([s EXCEPT
                    !.stack = [SubSeq(@, 1, n - 1) EXCEPT ![n - 1].j = @ + 1],
                    !.items[parent].children = got])
     ELSE LET item == f.items[f.j]
              grow == /\ f.top
                      /\ item.parentItem # None
                      /\ \A x \in 1..Len(s.keys) : s.keys[x] # item.parentItem
              s1 == [s EXCEPT !.items = Put(@, item.key, item),
                              !.grown = IF grow
                                        THEN Append(@, <<item.parentItem, Len(s.requests)>>)
                                        ELSE @,
                              !.rewritten =
                                IF /\ item.key \in DOMAIN s.items
                                   /\ s.items[item.key].version = item.version
                                THEN @ \cup {<<item.key, f.top>>}
                                ELSE @]
          IN IF item.numChildren > 0
             THEN [s1 EXCEPT !.pc = "children"]
             ELSE ReceiveLoopForget([s1 EXCEPT !.stack[n].j = @ + 1])

\* receive() that pushes the parent key without looking for it in keys.
RECURSIVE ReceiveLoopPushAlways(_)
ReceiveLoopPushAlways(s) ==
  LET n == Len(s.stack)
      f == s.stack[n]
  IN IF f.j > Len(f.items)
     THEN IF n = 1
          THEN \* the call made by download() returns
               DownloadLoop([s EXCEPT !.stack = <<>>])
          ELSE \* item.children = the items received; the caller goes on
               LET p == s.stack[n - 1]
                   parent == p.items[p.j].key
                   got == [x \in 1..Len(f.items) |-> f.items[x].key]
               IN ReceiveLoopPushAlways([s EXCEPT
                    !.stack = [SubSeq(@, 1, n - 1) EXCEPT ![n - 1].j = @ + 1],
                    !.items[parent].children = got])
     ELSE LET item == f.items[f.j]
              grow == /\ f.top
                      /\ item.parentItem # None
              s1 == [s EXCEPT !.items = Put(@, item.key, item),
                              !.keys = IF grow THEN Append(@, item.parentItem) ELSE @,
                              !.grown = IF grow
                                        THEN Append(@, <<item.parentItem, Len(s.requests)>>)
                                        ELSE @,
                              !.rewritten =
                                IF /\ item.key \in DOMAIN s.items
                                   /\ s.items[item.key].version = item.version
                                THEN @ \cup {<<item.key, f.top>>}
                                ELSE @]
          IN IF item.numChildren > 0
             THEN [s1 EXCEPT !.pc = "children"]
             ELSE ReceiveLoopPushAlways([s1 EXCEPT !.stack[n].j = @ + 1])

\* The for loop of receive() up to its next yield. The frame on top of the
\* stack is the call of receive() that is running.
RECURSIVE ReceiveLoop(_)
ReceiveLoop(s) ==
  LET n == Len(s.stack)
      f == s.stack[n]
  IN IF f.j > Len(f.items)
     THEN IF n = 1
          THEN \* the call made by download() returns
               DownloadLoop([s EXCEPT !.stack = <<>>])
          ELSE \* item.children = the items received; the caller goes on
               LET p == s.stack[n - 1]
                   parent == p.items[p.j].key
                   got == [x \in 1..Len(f.items) |-> f.items[x].key]
               IN ReceiveLoop([s EXCEPT
                    !.stack = [SubSeq(@, 1, n - 1) EXCEPT ![n - 1].j = @ + 1],
                    !.items[parent].children = got])
     ELSE LET item == f.items[f.j]
              grow == /\ f.top
                      /\ item.parentItem # None
                      /\ \A x \in 1..Len(s.keys) : s.keys[x] # item.parentItem
              s1 == [s EXCEPT !.items = Put(@, item.key, item),
                              !.keys = IF grow THEN Append(@, item.parentItem) ELSE @,
                              !.grown = IF grow
                                        THEN Append(@, <<item.parentItem, Len(s.requests)>>)
                                        ELSE @,
                              !.rewritten =
                                IF /\ item.key \in DOMAIN s.items
                                   /\ s.items[item.key].version = item.version
                                THEN @ \cup {<<item.key, f.top>>}
                                ELSE @]
          IN IF item.numChildren > 0
             THEN [s1 EXCEPT !.pc = "children"]
             ELSE ReceiveLoop([s1 EXCEPT !.stack[n].j = @ + 1])

\* Session.prototype.receive(message, keys) up to its first yield.
Receive(s, message, top) ==
  IF message.type = "reject"
  THEN Catch(s, Fatal)
  ELSE IF ~Check(s.version, message.version)
  THEN Catch(s, Interrupted)
  ELSE IF message.type # "json"
  THEN Catch(s, Fatal)
  ELSE ReceiveLoop([s EXCEPT !.stack =
         Append(@, [items |-> message.data, j |-> 1, top |-> top])])

\* Session.prototype.update from the answer to its first request on.
\* earlier is subscription.versions.
UpdateFirst(s, message, earlier) ==
  IF message.type = "reject"
  THEN Catch(s, Fatal)
  ELSE IF message.unmodified
  THEN AfterUpdate([s EXCEPT !.unmodified = TRUE])
  ELSE IF message.type # "json"
  THEN Catch(s, Fatal)
  ELSE LET s1 == [s EXCEPT !.version = message.version,
                           !.versions = message.data]
       IN IF message.multi /\ ~message.done
          THEN [s1 EXCEPT !.pc = "page",
                          !.offset = Cardinality(DOMAIN message.data)]
          ELSE AfterUpdate(Diff(s1, s1.versions, earlier))

\* update() that merges a continuation page before it checks its version.
UpdateNextUnchecked(s, message, earlier) ==
  IF message.type = "reject"
  THEN Catch(s, Fatal)
  ELSE LET s1 == [s EXCEPT !.versions = Extend(@, message.data),
                           !.offset = @ + Cardinality(DOMAIN message.data)]
       IN IF ~Check(s.version, message.version)
          THEN Catch(s1, Interrupted)
          ELSE IF message.type # "json"
          THEN Catch(s1, Fatal)
          ELSE IF ~message.done
          THEN s1
          ELSE AfterUpdate(Diff(s1, s1.versions, earlier))

\* Session.prototype.update from the answer to message.next() on.
UpdateNext(s, message, earlier) ==
  IF message.type = "reject"
  THEN Catch(s, Fatal)
  ELSE IF ~Check(s.version, message.version)
  THEN Catch(s, Interrupted)
  ELSE IF message.type # "json"
  THEN Catch(s, Fatal)
  ELSE LET s1 == [s EXCEPT !.versions = Extend(@, message.data),
                           !.offset = @ + Cardinality(DOMAIN message.data)]
       IN IF ~message.done
          THEN s1
          ELSE AfterUpdate(Diff(s1, s1.versions, earlier))

\* update() that starts from an empty item cache.
UpdateBeginFresh(s) ==
  [s EXCEPT !.version = Undef, !.unmodified = FALSE, !.pc = "update",
            !.items = EmptyMap]

\* update() that keeps the version of the attempt before.
UpdateBeginKept(s) == [s EXCEPT !.unmodified = FALSE, !.pc = "update"]

\* The first statement of update(): this.version = undefined.
UpdateBegin(s) ==
  [s EXCEPT !.version = Undef, !.unmodified = FALSE, !.pc = "update"]

\* this.execute(skip, retry--)
NextRetryKept(retry) == retry

\* this.execute(skip, --retry)
NextRetry(retry) == retry - 1

(***************************************************************************)
(* The steps of a run r of Synchronizer.synchronize(sub, skip).            *)
(***************************************************************************)
Remote == <<remoteVersion, remoteItems, changes>>

Sub == <<subVersion, subVersions>>

\* What a step that does not call check() records.
Step(s) == [s EXCEPT !.checked = <<>>]

\* What a step that handles a message records: the site, this.version and
\* the version passed to check(); a request that failed calls no check().
Checking(s, site, old, message) ==
  IF message.type = "reject"
  THEN Step(s)
  ELSE [s EXCEPT !.checked = <<site, old.version, message.version>>]

\* synchronize() up to the first yield of update(): a new Session,
\* sub.touch(), execute(skip) with the default retry, update()'s request.
Synchronize(r, skip) ==
  /\ UNCHANGED Lis
  /\ session[r].pc \in {"idle", "done", "failed"}
  /\ session' = [session EXCEPT ![r] =
       UpdateBegin([Session EXCEPT !.skip = skip, !.retry = DefaultRetry,
                                   !.attempts = 1,
                                   !.before = <<subVersion, subVersions>>])]
  /\ UNCHANGED <<Remote, Sub>>

\* The server answers the request for the version manifest. It may answer
\* unmodified when the library is not newer than the subscription, and it
\* sends the manifest in one page or in several.
UpdateResponse(r) ==
  /\ UNCHANGED Lis
  /\ session[r].pc = "update"
  /\ \E type \in MsgTypes, unmodified \in BOOLEAN,
        n \in 0..Len(RemoteKeys(remoteItems)) :
       LET total == Len(RemoteKeys(remoteItems))
           message == [type |-> type, unmodified |-> unmodified,
                       version |-> remoteVersion,
                       data |-> ManifestPage(remoteItems, 1, n),
                       multi |-> n < total, done |-> n >= total]
       IN /\ unmodified => remoteVersion <= subVersion
          /\ n <= total
          /\ n = 0 => total = 0
          /\ session' = [session EXCEPT ![r] =
               Step(UpdateFirst(session[r], message, subVersions))]
  /\ UNCHANGED <<Remote, Sub>>

\* The server answers message.next() with the next page of the manifest.
PageResponse(r) ==
  /\ UNCHANGED Lis
  /\ session[r].pc = "page"
  /\ \E type \in MsgTypes, n \in 0..Len(RemoteKeys(remoteItems)) :
       LET total == Len(RemoteKeys(remoteItems))
           from == session[r].offset + 1
           message == [type |-> type, version |-> remoteVersion,
                       data |-> ManifestPage(remoteItems, from, from + n - 1),
                       done |-> from + n - 1 >= total]
       IN /\ from + n - 1 <= total \/ n = 0
          /\ n = 0 => from > total
          /\ session' = [session EXCEPT ![r] =
               Checking(UpdateNext(session[r], message, subVersions),
                        "update", session[r], message)]
  /\ UNCHANGED <<Remote, Sub>>

\* The server answers fetch(batch).
BatchResponse(r) ==
  /\ UNCHANGED Lis
  /\ session[r].pc = "batch"
  /\ \E type \in MsgTypes :
       LET message == [type |-> type, version |-> remoteVersion,
                       data |-> BatchData(remoteItems, session[r].batch)]
       IN session' = [session EXCEPT ![r] =
            Checking(Receive(session[r], message, TRUE),
                     "batch", session[r], message)]
  /\ UNCHANGED <<Remote, Sub>>

\* The parent links a server may send: those of the library, two items that
\* name each other, and three items in a ring.
ParentLinks ==
  {[k \in {"a", "c", "k01"} |-> IF k = "c" THEN "a" ELSE None],
   [k \in {"a", "c", "k01"} |->
      IF k = "c" THEN "a" ELSE IF k = "a" THEN "c" ELSE None],
   [k \in {"a", "c", "k01"} |->
      IF k = "c" THEN "a" ELSE IF k = "a" THEN "k01" ELSE "c"]}

\* A server that answers fetch(batch) with any of the items asked for that
\* it holds, with the parent links of one of ParentLinks.
BatchResponseAny(r) ==
  /\ UNCHANGED Lis
  /\ session[r].pc = "batch"
  /\ \E type \in MsgTypes,
        sent \in SUBSET (Range(session[r].batch) \cap DOMAIN remoteItems) :
       \E link \in ParentLinks :
         LET ks == Sorted(sent)
             message ==
               [type |-> type, version |-> remoteVersion,
                data |-> [x \in 1..Len(ks) |->
                            [Payload(remoteItems, ks[x])
                               EXCEPT !.parentItem = link[ks[x]]]]]
             left == IF type = "json"
                     THEN Range(session[r].batch) \ sent
                     ELSE {}
         IN session' = [session EXCEPT ![r] =
              Checking([Receive(session[r], message, TRUE)
                          EXCEPT !.omitted = @ \cup left],
                       "batch", session[r], message)]
  /\ UNCHANGED <<Remote, Sub>>

\* The server answers children(item) for the item receive() is at.
ChildrenResponse(r) ==
  /\ UNCHANGED Lis
  /\ session[r].pc = "children"
  /\ \E type \in MsgTypes :
       LET f == session[r].stack[Len(session[r].stack)]
           message == [type |-> type, version |-> remoteVersion,
                       data |-> ChildrenData(remoteItems, f.items[f.j].key)]
       IN session' = [session EXCEPT ![r] =
            Checking(Receive(session[r], message, FALSE),
                     "children", session[r], message)]
  /\ UNCHANGED <<Remote, Sub>>

\* B.delay(error.resume) is over: this.execute(skip, --retry).
Resume(r) ==
  /\ UNCHANGED Lis
  /\ session[r].pc = "delay"
  /\ session' = [session EXCEPT ![r] =
       Step(UpdateBegin([session[r] EXCEPT !.retry = NextRetry(@),
                                           !.error = None, !.resume = 0,
                                           !.attempts = @ + 1]))]
  /\ UNCHANGED <<Remote, Sub>>

\* sub.update({ version: session.version, versions: session.versions })
SubUpdate(s) ==
  /\ subVersion' = s.version
  /\ subVersions' = s.versions

\* synchronize() that updates the subscription before it dispatches.
AfterExecutePersistFirst(r) ==
  /\ UNCHANGED Lis
  /\ session[r].pc = "executed"
  /\ UNCHANGED Remote
  /\ IF ~Modified(session[r], subVersion)
     THEN /\ session' = [session EXCEPT ![r] = Step([@ EXCEPT !.pc = "done"])]
          /\ UNCHANGED Sub
     ELSE IF session[r].skip
     THEN /\ session' = [session EXCEPT ![r] =
               Step([@ EXCEPT !.pc = "done", !.persisted = TRUE])]
          /\ SubUpdate(session[r])
     ELSE /\ session' = [session EXCEPT ![r] =
               Step([@ EXCEPT !.pc = "dispatch", !.persisted = TRUE,
                              !.queue = 1..Len(SubPlugins)])]
          /\ SubUpdate(session[r])

\* synchronize() after execute() has returned: if the session is modified
\* it dispatches and then updates the subscription, or with skip updates
\* the subscription at once.
AfterExecute(r) ==
  /\ UNCHANGED Lis
  /\ session[r].pc = "executed"
  /\ UNCHANGED Remote
  /\ IF ~Modified(session[r], subVersion)
     THEN /\ session' = [session EXCEPT ![r] = Step([@ EXCEPT !.pc = "done"])]
          /\ UNCHANGED Sub
     ELSE IF session[r].skip
     THEN /\ session' = [session EXCEPT ![r] =
               Step([@ EXCEPT !.pc = "done", !.persisted = TRUE])]
          /\ SubUpdate(session[r])
     ELSE /\ session' = [session EXCEPT ![r] =
               Step([@ EXCEPT !.pc = "dispatch",
                              !.queue = 1..Len(SubPlugins)])]
          /\ UNCHANGED Sub

\* A mapper that fails for a plugin that is not available.
PluginStartStrict(r) ==
  /\ UNCHANGED Lis
  /\ session[r].pc = "dispatch"
  /\ session[r].running = 0
  /\ \E p \in session[r].queue :
       session' = [session EXCEPT ![r] =
         IF SubPlugins[p] \notin Available
         THEN Step([@ EXCEPT !.queue = @ \ {p}, !.pc = "failed",
                             !.error = PluginFailed])
         ELSE Step([@ EXCEPT !.queue = @ \ {p}, !.running = p,
                             !.started = Append(@, p)])]
  /\ UNCHANGED <<Remote, Sub>>

\* B.map calls the mapper for one more plugin descriptor when no plugin is
\* running (concurrency: 1); Bluebird does not specify in which order. A
\* plugin that is not available is skipped, another one is started.
PluginStart(r) ==
  /\ UNCHANGED Lis
  /\ session[r].pc = "dispatch"
  /\ session[r].running = 0
  /\ \E p \in session[r].queue :
       session' = [session EXCEPT ![r] =
         IF SubPlugins[p] \notin Available
         THEN Step([@ EXCEPT !.queue = @ \ {p}])
         ELSE Step([@ EXCEPT !.queue = @ \ {p}, !.running = p,
                             !.started = Append(@, p)])]
  /\ UNCHANGED <<Remote, Sub>>

\* The running plugin signals that it is done or that it failed, and
\* dispatch() goes on with the plugins that are left in both cases.
PluginDoneBestEffort(r) ==
  /\ UNCHANGED Lis
  /\ session[r].pc = "dispatch"
  /\ session[r].running # 0
  /\ \E ok \in BOOLEAN :
       session' = [session EXCEPT ![r] =
         IF ok
         THEN Step([@ EXCEPT !.running = 0])
         ELSE Step([@ EXCEPT !.running = 0, !.error = PluginFailed])]
  /\ UNCHANGED <<Remote, Sub>>

\* The running plugin signals that it is done, or that it failed: then
\* dispatch() and synchronize() fail with its error.
PluginDone(r) ==
  /\ UNCHANGED Lis
  /\ session[r].pc = "dispatch"
  /\ session[r].running # 0
  /\ \E ok \in BOOLEAN :
       session' = [session EXCEPT ![r] =
         IF ok
         THEN Step([@ EXCEPT !.running = 0])
         ELSE Step([@ EXCEPT !.running = 0, !.pc = "failed",
                             !.error = PluginFailed])]
  /\ UNCHANGED <<Remote, Sub>>

\* The running plugin calls session.attachment(item) for a downloaded item:
\* a cached answer is returned, or else a file request is sent.
Attachment(r, k) ==
  /\ UNCHANGED Lis
  /\ session[r].pc = "dispatch"
  /\ session[r].running # 0
  /\ k \in DOMAIN session[r].items
  /\ Len(session[r].fetched) < MaxFiles
  /\ session' = [session EXCEPT ![r] =
       IF k \in DOMAIN @.attachments
       THEN Step(@)
       ELSE Step([@ EXCEPT !.files = Append(@, k),
                           !.fetched = Append(@, k)])]
  /\ UNCHANGED <<Remote, Sub>>

\* The server answers one of the file requests in flight: on success the
\* tap of attachment() assigns the message in attachments.
FileResponse(r) ==
  /\ UNCHANGED Lis
  /\ \E n \in 1..Len(session[r].files), ok \in BOOLEAN :
       LET k == session[r].files[n]
           rest == [m \in 1..(Len(session[r].files) - 1) |->
                      IF m < n THEN session[r].files[m]
                      ELSE session[r].files[m + 1]]
       IN session' = [session EXCEPT ![r] =
            IF ok
            THEN [@ EXCEPT !.files = rest,
                           !.attachments = Put(@, k, TRUE),
                           !.stored = Append(@, k)]
            ELSE [@ EXCEPT !.files = rest]]
  /\ UNCHANGED <<Remote, Sub>>

\* dispatch() has returned: synchronize() updates the subscription.
Persist(r) ==
  /\ UNCHANGED Lis
  /\ session[r].pc = "dispatch"
  /\ session[r].running = 0
  /\ session[r].queue = {}
  /\ session' = [session EXCEPT ![r] =
       Step([@ EXCEPT !.pc = "done", !.persisted = TRUE])]
  /\ SubUpdate(session[r])
  /\ UNCHANGED Remote

(***************************************************************************)
(* The environment: the remote library changes.                            *)
(***************************************************************************)
\* An item is created or modified; a child item needs its parent.
RemoteModify(k) ==
  /\ UNCHANGED Lis
  /\ changes > 0
  /\ ParentOf(k) # None => ParentOf(k) \in DOMAIN remoteItems
  /\ remoteVersion' = remoteVersion + 1
  /\ remoteItems' = Put(remoteItems, k, remoteVersion + 1)
  /\ changes' = changes - 1
  /\ UNCHANGED <<Sub, session>>

\* An item is deleted, and its child items with it.
RemoteDelete(k) ==
  /\ UNCHANGED Lis
  /\ changes > 0
  /\ k \in DOMAIN remoteItems
  /\ remoteVersion' = remoteVersion + 1
  /\ remoteItems' = Without(remoteItems, {k} \cup {c \in Keys : ParentOf(c) = k})
  /\ changes' = changes - 1
  /\ UNCHANGED <<Sub, session>>

(***************************************************************************)
(* Listener.                                                               *)
(***************************************************************************)
\* The subscriptions passed to add() and remove(): "s1" and "s2" watch the
\* same topic with the same key.
Subscriptions ==
  {[id |-> "s1", key |-> "k1", path |-> "t1"],
   [id |-> "s2", key |-> "k1", path |-> "t1"],
   [id |-> "s3", key |-> "k1", path |-> "t2"]}

Topics == {[key |-> s.key, path |-> s.path] : s \in Subscriptions}

\* The Listener's state as one value, for the handlers below.
Listener ==
  [pending |-> pending, current |-> current, adds |-> adds,
   emitted |-> emitted]

\* Listener.prototype.updated does not return while its loop runs.
hung == updating # <<>>

\* by() with a predicate for the id that every entry satisfies.
ByAny(s, key, topic) ==
  IF topic = None
  THEN TRUE
  ELSE s.key = key /\ s.path = topic

\* by(key, topic): the predicate; topic is None when it is not passed.
By(s, key, topic) ==
  IF topic = None
  THEN s.id = key
  ELSE s.key = key /\ s.path = topic

\* common.findIndex(list, by(key, topic)), counted from 1; 0 when not found.
Index(list, key, topic) ==
  LET hits == {x \in 1..Len(list) : By(list[x], key, topic)}
  IN IF hits = {} THEN 0 ELSE CHOOSE x \in hits : \A y \in hits : x <= y

\* list.splice(idx, 1)
Splice(list, idx) == SubSeq(list, 1, idx - 1) \o SubSeq(list, idx + 1, Len(list))

\* this.emit(event, data)
Emit(bag, event, id) ==
  Put(bag, <<event, id>>,
      IF <<event, id>> \in DOMAIN bag THEN bag[<<event, id>>] + 1 ELSE 1)

\* pick(s, 'id', 'key', 'path')
Pick(s) == [id |-> s.id, key |-> s.key, path |-> s.path]

\* Listener.prototype.resolve
RECURSIVE Resolve(_, _, _)
Resolve(l, key, topic) ==
  LET idx == Index(l.pending, key, topic)
  IN IF idx = 0
     THEN l
     ELSE LET s == l.pending[idx]
          IN Resolve([l EXCEPT !.pending = Splice(@, idx),
                               !.adds[s.call].promise = "resolved",
                               !.current = Append(@, Pick(s)),
                               !.emitted = Emit(@, "added", s.id)],
                     key, topic)

\* reject() with the push of resolve(): the rejected registration is also
\* put into current.
RECURSIVE RejectActivate(_, _, _)
RejectActivate(l, key, topic) ==
  LET idx == Index(l.pending, key, topic)
  IN IF idx = 0
     THEN l
     ELSE LET s == l.pending[idx]
          IN RejectActivate([l EXCEPT !.pending = Splice(@, idx),
                                      !.adds[s.call].promise = "rejected",
                                      !.current = Append(@, Pick(s)),
                                      !.emitted = Emit(@, "error", s.id)],
                            key, topic)

\* Listener.prototype.reject; the program listens to the Listener's error
\* event, so that emit('error', ...) returns.
RECURSIVE Reject(_, _, _)
Reject(l, key, topic) ==
  LET idx == Index(l.pending, key, topic)
  IN IF idx = 0
     THEN l
     ELSE LET s == l.pending[idx]
          IN Reject([l EXCEPT !.pending = Splice(@, idx),
                              !.adds[s.call].promise = "rejected",
                              !.emitted = Emit(@, "error", s.id)],
                    key, topic)

\* The loop of subscribed() over subscription.topics, from j on.
RECURSIVE ResolveTopics(_, _, _, _)
ResolveTopics(l, key, topics, j) ==
  IF j > Len(topics)
  THEN l
  ELSE ResolveTopics(Resolve(l, key, topics[j]), key, topics, j + 1)

\* The loop of subscribed() over subscriptions, from i on.
RECURSIVE ResolveAll(_, _, _)
ResolveAll(l, subscriptions, i) ==
  IF i > Len(subscriptions)
  THEN l
  ELSE ResolveAll(
         ResolveTopics(l, subscriptions[i].apiKey, subscriptions[i].topics, 1),
         subscriptions, i + 1)

\* The loop of subscribed() over errors, from i on.
RECURSIVE RejectAll(_, _, _)
RejectAll(l, errors, i) ==
  IF i > Len(errors)
  THEN l
  ELSE RejectAll(Reject(l, errors[i].apiKey, errors[i].topic),
                 errors, i + 1)

\* Listener.prototype.subscribed
Subscribed(l, subscriptions, errors) ==
  RejectAll(ResolveAll(l, subscriptions, 1), errors, 1)

\* register() that resolves at once: the registration is also put into
\* current and the promise of add() is resolved.
RegisterActive(l, call) ==
  [l EXCEPT !.pending = Append(@, [id |-> l.adds[call].sub.id,
                                   key |-> l.adds[call].sub.key,
                                   path |-> l.adds[call].sub.path,
                                   call |-> call]),
            !.current = Append(@, Pick(l.adds[call].sub)),
            !.adds[call].promise = "resolved"]

\* Listener.prototype.register
Register(l, call) ==
  [l EXCEPT !.pending = Append(@, [id |-> l.adds[call].sub.id,
                                   key |-> l.adds[call].sub.key,
                                   path |-> l.adds[call].sub.path,
                                   call |-> call]),
            !.adds[call].promise = "pending"]

Becomes(l) ==
  /\ pending' = l.pending
  /\ current' = l.current
  /\ adds' = l.adds
  /\ emitted' = l.emitted

\* Listener.prototype.add up to stream.subscribe(): the request is sent.
\* promise is "sent" until the callback of subscribe() runs; answered says
\* whether the stream has answered the request with subscriptionsCreated,
\* confirmed whether that answer confirmed the topic.
Add(subscription) ==
  /\ UNCHANGED Sync
  /\ ~hung
  /\ Len(adds) < MaxAdds
  /\ adds' = Append(adds, [sub |-> subscription, promise |-> "sent",
                           answered |-> FALSE, confirmed |-> FALSE])
  /\ UNCHANGED <<pending, current, removes, emitted, updating>>

\* The callback of stream.subscribe(): with an error it rejects the
\* promise of add(), without one it registers the subscription. A request
\* the stream has answered was sent without error.
SubscribeCallback(call) ==
  /\ UNCHANGED Sync
  /\ ~hung
  /\ adds[call].promise = "sent"
  /\ \E error \in BOOLEAN :
       /\ error => ~adds[call].answered
       /\ IF error
          THEN Becomes([Listener EXCEPT !.adds[call].promise = "failed"])
          ELSE Becomes(Register(Listener, call))
  /\ UNCHANGED <<removes, updating>>

\* The stream's subscriptionsCreated event that answers the request of a
\* call of add(): it confirms the topic or reports an error for it.
SubscriptionsCreated(call) ==
  /\ UNCHANGED Sync
  /\ ~hung
  /\ adds[call].promise # "failed"
  /\ ~adds[call].answered
  /\ \E confirmed \in BOOLEAN :
       LET s == adds[call].sub
           subscriptions ==
             IF confirmed
             THEN <<[apiKey |-> s.key, topics |-> <<s.path>>]>>
             ELSE <<>>
           errors ==
             IF confirmed
             THEN <<>>
             ELSE <<[apiKey |-> s.key, topic |-> s.path, error |-> "e"]>>
       IN Becomes(Subscribed([Listener EXCEPT
                                !.adds[call].answered = TRUE,
                                !.adds[call].confirmed = confirmed],
                             subscriptions, errors))
  /\ UNCHANGED <<removes, updating>>

\* Listener.prototype.updated, the handler of the stream's topicUpdated, up
\* to the end of the first pass of its loop: without a match it returns;
\* with one it emits updated for the first registration that matches and
\* looks again, and as nothing takes the registration out of current the
\* loop goes on.
TopicUpdated(data) ==
  /\ UNCHANGED Sync
  /\ ~hung
  /\ LET idx == Index(current, data.key, data.path)
     IN IF idx = 0
        THEN UNCHANGED <<emitted, updating>>
        ELSE /\ emitted' = Emit(emitted, "updated", current[idx].id)
             /\ updating' = <<data>>
  /\ UNCHANGED <<pending, current, adds, removes>>

\* The number of updated events emitted so far.
Updates ==
  LET RECURSIVE Sum(_)
      Sum(S) == IF S = {} THEN 0
                ELSE LET e == CHOOSE e \in S : TRUE
                     IN emitted[e] + Sum(S \ {e})
  IN Sum({e \in DOMAIN emitted : e[1] = "updated"})

\* A further pass of the loop of Listener.prototype.updated: find() returns
\* the same first match again.
UpdatedLoop ==
  /\ UNCHANGED Sync
  /\ hung
  /\ Updates < MaxUpdates
  /\ LET idx == Index(current, updating[1].key, updating[1].path)
     IN emitted' = Emit(emitted, "updated", current[idx].id)
  /\ UNCHANGED <<pending, current, adds, removes, updating>>

\* Listener.prototype.remove up to stream.unsubscribe(): the registration
\* is taken out of current; without one the promise is rejected.
Remove(subscription) ==
  /\ UNCHANGED Sync
  /\ ~hung
  /\ Len(removes) < MaxRemoves
  /\ LET idx == Index(current, subscription.id, None)
     IN IF idx = 0
        THEN /\ removes' = Append(removes, [id |-> subscription.id,
                                            promise |-> "not registered"])
             /\ UNCHANGED current
        ELSE /\ removes' = Append(removes, [id |-> subscription.id,
                                            promise |-> "sent"])
             /\ current' = Splice(current, idx)
  /\ UNCHANGED <<pending, adds, emitted, updating>>

\* The callback of stream.unsubscribe().
UnsubscribeCallback(call) ==
  /\ UNCHANGED Sync
  /\ ~hung
  /\ removes[call].promise = "sent"
  /\ \E error \in BOOLEAN :
       removes' = [removes EXCEPT ![call].promise =
                     IF error THEN "rejected" ELSE "resolved"]
  /\ UNCHANGED <<pending, current, adds, emitted, updating>>

(***************************************************************************)
(* Specifications.                                                         *)
(***************************************************************************)
InitLibrary ==
  /\ remoteVersion = 2
  /\ remoteItems = [k \in SmallKeys |-> IF k = "a" THEN 1 ELSE 2]
  /\ subVersion = 0
  /\ subVersions = EmptyMap
  /\ session = [r \in Runs |-> Session]

\* function Listener()
InitListener ==
  /\ pending = <<>>
  /\ current = <<>>
  /\ adds = <<>>
  /\ removes = <<>>
  /\ emitted = EmptyMap
  /\ updating = <<>>

Init == InitLibrary /\ InitListener /\ changes = MaxChanges

InitOverlap == InitLibrary /\ InitListener /\ changes = MaxChangesOverlap

InitStream == InitLibrary /\ InitListener /\ changes = 0

RunStep(r) ==
  \/ \E skip \in BOOLEAN : Synchronize(r, skip)
  \/ UpdateResponse(r)
  \/ PageResponse(r)
  \/ BatchResponse(r)
  \/ ChildrenResponse(r)
  \/ Resume(r)
  \/ AfterExecute(r)
  \/ PluginStart(r)
  \/ PluginDone(r)
  \/ Persist(r)

RemoteStep == \E k \in SmallKeys : RemoteModify(k) \/ RemoteDelete(k)

\* One synchronize() call at a time.
Next == RunStep("r1") \/ RemoteStep

Spec == Init /\ [][Next]_vars

\* Two calls of synchronize() for the same subscription that may overlap:
\* "r1" is the one called first.
SynchronizeOnce(r, skip) ==
  /\ session[r].pc = "idle"
  /\ r = "r2" => session["r1"].pc # "idle"
  /\ Synchronize(r, skip)

RunStepOnce(r) ==
  \/ \E skip \in BOOLEAN : SynchronizeOnce(r, skip)
  \/ UpdateResponse(r)
  \/ PageResponse(r)
  \/ BatchResponse(r)
  \/ ChildrenResponse(r)
  \/ Resume(r)
  \/ AfterExecute(r)
  \/ PluginStart(r)
  \/ PluginDone(r)
  \/ Persist(r)

NextOverlap == (\E r \in Runs : RunStepOnce(r)) \/ RemoteStep

SpecOverlap == InitOverlap /\ [][NextOverlap]_vars

\* The Listener and its stream.
ListenerStep ==
  \/ \E s \in Subscriptions : Add(s)
  \/ \E call \in 1..Len(adds) : SubscribeCallback(call)
  \/ \E call \in 1..Len(adds) : SubscriptionsCreated(call)
  \/ \E data \in Topics : TopicUpdated(data)
  \/ UpdatedLoop
  \/ \E s \in Subscriptions : Remove(s)
  \/ \E call \in 1..Len(removes) : UnsubscribeCallback(call)

NextListener == ListenerStep

SpecListener == InitStream /\ [][NextListener]_vars

\* The calls of add() alone: every callback of stream.subscribe() is
\* called, and the stream answers every request that was sent without error.
NextAdd ==
  \/ \E s \in Subscriptions : Add(s)
  \/ \E call \in 1..Len(adds) : SubscribeCallback(call)
  \/ \E call \in 1..Len(adds) : SubscriptionsCreated(call)

FairAdd ==
  \A call \in 1..MaxAdds :
    /\ WF_vars(call <= Len(adds) /\ SubscribeCallback(call))
    /\ WF_vars(call <= Len(adds) /\ SubscriptionsCreated(call))

SpecAdd == InitStream /\ [][NextAdd]_vars /\ FairAdd

\* A library of three items, "c" the child of "a"; the subscription holds
\* any of them at version 1, and the library does not change.
InitDownload ==
  /\ remoteVersion = 2
  /\ remoteItems = [k \in {"a", "c", "k01"} |-> IF k = "c" THEN 2 ELSE 1]
  /\ \E S \in SUBSET {"a", "c", "k01"} :
       /\ subVersions = [k \in S |-> 1]
       /\ subVersion = IF S = {} THEN 0 ELSE 1
  /\ session = [r \in Runs |-> Session]
  /\ InitListener
  /\ changes = 0

\* The steps of the runs of synchronize() with a server that may leave items
\* out of its answers and may link the items to any parent.
NextDownload ==
  \/ \E skip \in BOOLEAN : Synchronize("r1", skip)
  \/ UpdateResponse("r1")
  \/ PageResponse("r1")
  \/ BatchResponseAny("r1")
  \/ ChildrenResponse("r1")
  \/ AfterExecute("r1")
  \/ PluginStart("r1")
  \/ PluginDone("r1")
  \/ Persist("r1")

\* The server answers every request: weak fairness of its two answers, a
\* request for a batch being open exactly while pc is "batch" and one for
\* children exactly while pc is "children".
FairDownload ==
  /\ \/ []<>(session["r1"].pc # "batch")
     \/ []<><<BatchResponseAny("r1")>>_vars
  /\ \/ []<>(session["r1"].pc # "children")
     \/ []<><<ChildrenResponse("r1")>>_vars

SpecDownload == InitDownload /\ [][NextDownload]_vars /\ FairDownload

\* A library of more items than one request may name: "a", its child "c"
\* and the items of PlainKeys; the subscription has not been synchronized,
\* and the library does not change.
InitBatch ==
  /\ remoteVersion = 2
  /\ remoteItems = [k \in Keys |-> IF k = "c" THEN 2 ELSE 1]
  /\ subVersion = 0
  /\ subVersions = EmptyMap
  /\ session = [r \in Runs |-> Session]
  /\ InitListener
  /\ changes = 0

\* The steps of the runs of synchronize() that no error interrupts.
NextBatch ==
  \/ \E skip \in BOOLEAN : Synchronize("r1", skip)
  \/ UpdateResponse("r1")
  \/ PageResponse("r1")
  \/ BatchResponse("r1")
  \/ ChildrenResponse("r1")
  \/ AfterExecute("r1")
  \/ PluginStart("r1")
  \/ PluginDone("r1")
  \/ Persist("r1")

SpecBatch == InitBatch /\ [][NextBatch]_vars

\* A library of an item and its child that does not change; the subscription
\* has not been synchronized.
InitAttach ==
  /\ InitLibrary
  /\ InitListener
  /\ changes = 0

\* The steps of the runs of synchronize() that no error interrupts, with a
\* plugin that asks for the attachments of the items.
NextAttach ==
  \/ \E skip \in BOOLEAN : Synchronize("r1", skip)
  \/ UpdateResponse("r1")
  \/ PageResponse("r1")
  \/ BatchResponse("r1")
  \/ ChildrenResponse("r1")
  \/ AfterExecute("r1")
  \/ PluginStart("r1")
  \/ PluginDone("r1")
  \/ Persist("r1")
  \/ \E k \in SmallKeys : Attachment("r1", k)
  \/ FileResponse("r1")

SpecAttach == InitAttach /\ [][NextAttach]_vars

\* The version manifests diff() is called with: the versions of some keys.
Manifests ==
  UNION {[S -> 1..MaxItemVersion] : S \in SUBSET SmallKeys}

\* A call of diff() with its defaults, on a session whose versions and whose
\* subscription's versions are any two manifests; created, updated and
\* deleted are what the call before left.
DiffCall ==
  /\ UNCHANGED Lis
  /\ \E versions \in Manifests, earlier \in Manifests :
       /\ subVersions' = earlier
       /\ session' = [session EXCEPT
                        !["r1"] = Diff([@ EXCEPT !.versions = versions],
                                       versions, earlier)]
  /\ UNCHANGED <<remoteVersion, remoteItems, changes, subVersion>>

NextDiff == DiffCall

SpecDiff == InitStream /\ [][NextDiff]_vars

(***************************************************************************)
(* The claims.                                                             *)
(***************************************************************************)
\* A step of run r that handled a message and called check().
Checked(r) ==
  /\ session[r].pc \in {"page", "batch", "children"}
  /\ session'[r] # session[r]
  /\ session'[r].checked # <<>>

\* check() threw InterruptedError in the step that led to session s.
Threw(s) == s.error = Interrupted /\ s.pc \in {"delay", "failed"}

SameData(s, t) ==
  /\ t.version = s.version
  /\ t.versions = s.versions
  /\ t.items = s.items
  /\ t.created = s.created
  /\ t.updated = s.updated
  /\ t.deleted = s.deleted

\* C1: check(v) accepts every v while this.version is undefined; with a
\* version observed it returns true exactly when v equals it, and otherwise
\* throws InterruptedError (resume 5000) and leaves version, versions, items,
\* created, updated and deleted as they were.
C1_Check ==
  [][\A r \in Runs :
       Checked(r) =>
         LET s == session[r]
             t == session'[r]
             v == t.checked[3]
         IN /\ t.checked[2] = s.version
            /\ (s.version = Undef \/ s.version = v) => t.error # Interrupted
            /\ (s.version # Undef /\ s.version # v) =>
                 /\ Threw(t)
                 /\ t.pc = "delay" => t.resume = 5000
                 /\ SameData(s, t)]_vars

\* A session whose check() threw on a version that differs from its own.
C1_Witness ==
  \E r \in Runs :
    /\ session[r].checked # <<>>
    /\ session[r].checked[2] # Undef
    /\ session[r].checked[2] # session[r].checked[3]
    /\ Threw(session[r])

\* C2: update() merges a continuation page into versions only after check()
\* accepted the page's version; a page with another version than the one
\* recorded from the first page is not merged, the update throws
\* InterruptedError and computes no diff.
C2_PageChecked ==
  [][\A r \in Runs :
       LET s == session[r]
           t == session'[r]
       IN (s.pc = "page" /\ t # s) =>
            /\ t.versions # s.versions =>
                 t.checked # <<>> /\ t.checked[3] = s.version
            /\ (t.checked # <<>> /\ t.checked[3] # s.version) =>
                 Threw(t) /\ SameData(s, t)]_vars

\* A continuation page with a version other than the session's was refused.
C2_Witness ==
  \E r \in Runs :
    /\ session[r].checked # <<>>
    /\ session[r].checked[1] = "update"
    /\ session[r].checked[2] # session[r].checked[3]
    /\ Threw(session[r])
    /\ DOMAIN session[r].versions # {}

\* C3: when the answer to a batch of download() has another version than the
\* session's, download() throws InterruptedError and stores no item of that
\* batch; and no step of a run, the retry of execute() included, takes an
\* item out of items.
C3_Abort ==
  [][\A r \in Runs :
       LET s == session[r]
           t == session'[r]
       IN /\ (s.pc = "batch" /\ t.checked # <<>>
              /\ s.version # Undef /\ t.checked[3] # s.version) =>
               Threw(t) /\ t.items = s.items
          /\ s.pc \notin {"idle", "done", "failed"} =>
               DOMAIN s.items \subseteq DOMAIN t.items]_vars

\* The second batch of a download() was refused while items held the first.
C3_Witness ==
  \E r \in Runs :
    /\ session[r].checked # <<>>
    /\ session[r].checked[1] = "batch"
    /\ session[r].checked[2] # session[r].checked[3]
    /\ session[r].pc = "delay"
    /\ session[r].batches >= 2
    /\ DOMAIN session[r].items # {}

\* C4: execute() makes another attempt only after an InterruptedError with a
\* retry budget that is not zero; an InterruptedError with retry 0 and any
\* other error end the call without another update().
C4_Retry ==
  [][\A r \in Runs :
       LET s == session[r]
           t == session'[r]
       IN /\ t.pc = "delay" => t.error = Interrupted /\ t.retry # 0
          /\ (t.error = Interrupted /\ t.retry = 0) => t.pc = "failed"
          /\ t.error = Fatal => t.pc = "failed"
          /\ (t.attempts > s.attempts /\ t.attempts > 1) =>
               s.pc = "delay" /\ s.error = Interrupted /\ s.retry # 0
          /\ (s.pc = "failed" /\ t # s) => t.attempts = 1]_vars

\* An InterruptedError with retry 0 ended execute().
C4_Witness ==
  \E r \in Runs :
    /\ session[r].pc = "failed"
    /\ session[r].error = Interrupted
    /\ session[r].retry = 0

\* C5 as claimed: one execute() with the default retry makes at most 3
\* attempts, and the 3rd interrupted attempt ends the call.
C5_ThreeAttempts ==
  \A r \in Runs :
    /\ session[r].attempts <= 3
    /\ (session[r].error = Interrupted /\ session[r].attempts = 3) =>
         session[r].pc = "failed"

\* C5 as amended: one execute() with the default retry (3) makes at most 4
\* attempts, the first and 3 retries; an interrupted attempt ends the call
\* with InterruptedError exactly when it is the 4th, and attempt n runs with
\* a retry budget of 4 - n.
C5_FourAttempts ==
  \A r \in Runs :
    LET s == session[r]
    IN /\ s.attempts <= DefaultRetry + 1
       /\ s.pc \notin {"idle"} => s.retry = DefaultRetry + 1 - s.attempts
       /\ s.error = Interrupted =>
            (s.pc = "failed" <=> s.attempts = DefaultRetry + 1)

\* The 4th attempt of an execute() was interrupted and ended the call.
C5_Witness ==
  \E r \in Runs :
    /\ session[r].attempts = 4
    /\ session[r].error = Interrupted
    /\ session[r].pc = "failed"
    /\ session[r].checked # <<>>

\* C6 as claimed: a run of synchronize(sub, false) whose session is modified
\* has updated the subscription when it ends, whatever dispatch() did.
C6_PersistRegardless ==
  \A r \in Runs :
    LET s == session[r]
    IN (/\ s.pc \in {"done", "failed"}
        /\ ~s.skip
        /\ s.error \notin {Interrupted, Fatal}
        /\ Modified(s, s.before[1])) => s.persisted

\* C7: when synchronize(sub, false) updates the subscription, dispatch() is
\* over: no plugin of the run is running, none is left to be started, and
\* none is started afterwards.
C7_PersistAfterDispatch ==
  [][\A r \in Runs :
       LET s == session[r]
           t == session'[r]
       IN /\ t.persisted => t.running = 0 /\ t.queue = {} /\ t.pc = "done"
          /\ (s.persisted /\ t.persisted) => t.started = s.started]_vars

\* A run updated the subscription after both of its plugins had run.
C7_Witness ==
  \E r \in Runs :
    /\ session[r].persisted
    /\ ~session[r].skip
    /\ Len(session[r].started) = 2
    /\ subVersion = session[r].version

\* C8: when execute() fails in synchronize(), with InterruptedError after
\* the retries or with another error, no plugin is started and the
\* subscription is not updated: its version and versions are those it had
\* when the run began.
C8_FailedRun ==
  \A r \in Runs :
    LET s == session[r]
    IN (s.error \in {Interrupted, Fatal} /\ s.pc # "delay") =>
         /\ s.pc = "failed"
         /\ ~s.persisted
         /\ s.started = <<>>
         /\ s.queue = {}
         /\ s.running = 0
         /\ <<subVersion, subVersions>> = s.before

\* execute() failed with a session that had found a newer version.
C8_Witness ==
  \E r \in Runs :
    /\ session[r].pc = "failed"
    /\ session[r].error = Interrupted
    /\ Modified(session[r], subVersion)
    /\ DOMAIN session[r].items # {}

\* C9 as claimed: no step lowers the subscription's persisted version.
C9_Monotonic == [][subVersion' >= subVersion]_vars

\* The calls of add() for a topic that are settled, and those answered.
Settled(topic) ==
  {n \in 1..Len(adds) :
     /\ adds[n].sub.key = topic.key
     /\ adds[n].sub.path = topic.path
     /\ adds[n].promise \in {"resolved", "rejected"}}

Answered(topic) ==
  {n \in 1..Len(adds) :
     /\ adds[n].sub.key = topic.key
     /\ adds[n].sub.path = topic.path
     /\ adds[n].answered}

\* C10 as claimed: each confirmation or failure of subscriptionsCreated for a
\* pair (key, topic) settles one pending registration of that pair, so no
\* more registrations of a pair are settled than the stream has answered.
C10_OnePerConfirmation ==
  \A topic \in Topics :
    Cardinality(Settled(topic)) <= Cardinality(Answered(topic))

\* The updated events emitted for the subscription with this id.
UpdatedCount(bag, id) ==
  IF <<"updated", id>> \in DOMAIN bag THEN bag[<<"updated", id>>] ELSE 0

\* The active registrations with this id that watch the topic of data.
Matching(id, data) ==
  {x \in 1..Len(current) :
     /\ current[x].id = id
     /\ current[x].key = data.key
     /\ current[x].path = data.path}

\* C11 as claimed: a step that emits updated is the handling of one
\* topicUpdated from its start to its return, and it emits updated exactly
\* once for every active registration of the notification's (key, topic)
\* and for no other.
C11_FanOut ==
  [][(\E s \in Subscriptions :
        UpdatedCount(emitted', s.id) # UpdatedCount(emitted, s.id)) =>
       /\ ~hung
       /\ ~hung'
       /\ \E data \in Topics :
            \A s \in Subscriptions :
              UpdatedCount(emitted', s.id) =
                UpdatedCount(emitted, s.id) + Cardinality(Matching(s.id, data))]_vars

\* C12 as claimed: remove() takes a registration out of current only when
\* the callback of unsubscribe() reports success; when it reports an error
\* the promise of remove() is rejected and the registration with that id is
\* still in current.
C12_RemoveOnSuccess ==
  [][/\ Len(current') < Len(current) =>
          \E call \in 1..Len(removes) :
            /\ removes[call].promise = "sent"
            /\ removes'[call].promise = "resolved"
     /\ \A call \in 1..Len(removes) :
          (removes[call].promise = "sent"
             /\ removes'[call].promise = "rejected") =>
            Index(current', removes[call].id, None) # 0]_vars

\* C13: remove() for an id without an entry in current is rejected with
\* 'not registered', sends no unsubscribe request and leaves pending and
\* current as they are; with an entry it takes out exactly one entry, one
\* with that id, and leaves every other entry of current in place.
C13_RemoveById ==
  [][Len(removes') > Len(removes) =>
       LET call == removes'[Len(removes')]
           ids == {current[x].id : x \in 1..Len(current)}
       IN /\ pending' = pending
          /\ call.id \notin ids =>
               call.promise = "not registered" /\ current' = current
          /\ call.id \in ids =>
               /\ call.promise = "sent"
               /\ \E x \in 1..Len(current) :
                    /\ current[x].id = call.id
                    /\ current' = Splice(current, x)]_vars

\* remove() for an id that is only pending was refused while current holds
\* a registration of another id for the same key and path.
C13_Witness ==
  \E a \in 1..Len(removes) :
    /\ removes[a].promise = "not registered"
    /\ \E x \in 1..Len(pending), y \in 1..Len(current) :
         /\ pending[x].id = removes[a].id
         /\ current[y].id # removes[a].id
         /\ current[y].key = pending[x].key
         /\ current[y].path = pending[x].path

\* The events of this kind emitted for the subscription with this id.
EventCount(bag, event, id) ==
  IF <<event, id>> \in DOMAIN bag THEN bag[<<event, id>>] ELSE 0

\* The calls of add() for this id whose registration is rejected in the step.
RejectedNow(id) ==
  {n \in 1..Len(adds) :
     /\ adds[n].sub.id = id
     /\ adds[n].promise = "pending"
     /\ adds'[n].promise = "rejected"}

\* C14: a pending registration rejected for a failure of subscriptionsCreated
\* leaves pending, the promise of its add() is rejected and an error event is
\* emitted for it; it is not put into current, then or later: current never
\* holds more registrations of an id than calls of add() for that id were
\* resolved.
C14_Rejected ==
  [][\A s \in Subscriptions :
       /\ RejectedNow(s.id) # {} =>
            /\ \A x \in 1..Len(pending') : pending'[x].call \notin RejectedNow(s.id)
            /\ current' = current
            /\ EventCount(emitted', "error", s.id) =
                 EventCount(emitted, "error", s.id) + Cardinality(RejectedNow(s.id))
       /\ Cardinality({x \in 1..Len(current') : current'[x].id = s.id}) <=
            Cardinality({n \in 1..Len(adds') :
                           /\ adds'[n].sub.id = s.id
                           /\ adds'[n].promise = "resolved"})]_vars

\* A registration was rejected and is in neither list, with its error event
\* emitted.
C14_Witness ==
  \E n \in 1..Len(adds) :
    /\ adds[n].promise = "rejected"
    /\ EventCount(emitted, "error", adds[n].sub.id) >= 1
    /\ \A x \in 1..Len(current) : current[x].id # adds[n].sub.id
    /\ \A x \in 1..Len(pending) : pending[x].call # n

\* The step processes a subscriptionsCreated that confirms this key and path.
ConfirmedNow(key, path) ==
  \E m \in 1..Len(adds) :
    /\ ~adds[m].answered
    /\ adds'[m].answered
    /\ adds'[m].confirmed
    /\ adds[m].sub.key = key
    /\ adds[m].sub.path = path

\* C15: the promise of add() is resolved, and a registration enters current,
\* only in a step that processes a subscriptionsCreated confirming its key
\* and path; a subscribe() whose callback reports an error rejects the
\* promise of add() and adds nothing to pending.
C15_ResolvedAfterAck ==
  [][/\ \A n \in 1..Len(adds) :
          /\ (adds[n].promise # "resolved" /\ adds'[n].promise = "resolved") =>
               ConfirmedNow(adds[n].sub.key, adds[n].sub.path)
          /\ (adds[n].promise = "sent" /\ adds'[n].promise = "failed") =>
               pending' = pending /\ current' = current
     /\ Len(adds') > Len(adds) =>
          adds'[Len(adds')].promise = "sent" /\ current' = current
     /\ \A x \in 1..Len(current') :
          x > Len(current) =>
            ConfirmedNow(current'[x].key, current'[x].path)]_vars

\* One add() was resolved after its confirmation and is in current; the
\* subscribe() of another failed and left nothing in pending.
C15_Witness ==
  \E n, m \in 1..Len(adds) :
    /\ adds[n].promise = "resolved"
    /\ \E x \in 1..Len(current) : current[x].id = adds[n].sub.id
    /\ adds[m].promise = "failed"
    /\ pending = <<>>

\* Whether a sequence names no key twice.
NoRepeat(seq) == Cardinality(Range(seq)) = Len(seq)

\* C16: after diff(current, earlier), whatever the three arrays held before,
\* created holds exactly the keys only in current, updated exactly the keys
\* in both whose current version is greater, deleted exactly the keys only
\* in earlier, each key once; a key with the same version is in none, no
\* key is in two of them, and a second call with the same inputs gives the
\* same three sequences.
C16_Diff ==
  [][LET t == session'["r1"]
         s == session["r1"]
         now == t.versions
         earlier == subVersions'
     IN /\ Range(t.created) = DOMAIN now \ DOMAIN earlier
        /\ Range(t.updated) =
             {k \in DOMAIN now \cap DOMAIN earlier : now[k] > earlier[k]}
        /\ Range(t.deleted) = DOMAIN earlier \ DOMAIN now
        /\ NoRepeat(t.created) /\ NoRepeat(t.updated) /\ NoRepeat(t.deleted)
        /\ \A k \in DOMAIN now \cap DOMAIN earlier :
             now[k] <= earlier[k] =>
               k \notin Range(t.created) \cup Range(t.updated) \cup Range(t.deleted)
        /\ Range(t.created) \cap Range(t.updated) = {}
        /\ Range(t.created) \cap Range(t.deleted) = {}
        /\ Range(t.updated) \cap Range(t.deleted) = {}
        /\ (now = s.versions /\ earlier = subVersions) =>
             /\ t.created = s.created
             /\ t.updated = s.updated
             /\ t.deleted = s.deleted]_vars

\* diff() found one key updated and another created or deleted.
C16_Witness ==
  LET s == session["r1"]
  IN /\ s.updated # <<>>
     /\ s.created # <<>> \/ s.deleted # <<>>
     /\ \E k \in DOMAIN s.versions : k \in DOMAIN subVersions

\* C17: in every state of a session, modified is true exactly when version
\* is defined and greater than the subscription's version: it is false
\* before update() has got a version, and false when the version it got is
\* equal to or lower than the subscription's.
C17_Modified ==
  \A r \in Runs :
    LET s == session[r]
    IN /\ Modified(s, subVersion) <=>
            (s.version # Undef /\ s.version > subVersion)
       /\ s.pc \in {"idle", "update"} => ~Modified(s, subVersion)
       /\ (s.version # Undef /\ s.version <= subVersion) =>
            ~Modified(s, subVersion)
       /\ (s.version # Undef /\ s.version >= subVersion + 1) =>
            Modified(s, subVersion)

\* update() got the version the subscription already has: the run ended
\* without an update of the subscription.
C17_Witness ==
  \E r \in Runs :
    /\ session[r].version # Undef
    /\ session[r].version = subVersion
    /\ ~session[r].persisted
    /\ session[r].pc = "done"

\* C18: when the manifest request of update() is answered with unmodified,
\* the session's version is undefined from then on, the session is not
\* modified, no plugin is started and sub.update() is not called, also when
\* the answer comes to the update() of a retry.
C18_Unmodified ==
  \A r \in Runs :
    LET s == session[r]
    IN s.unmodified =>
         /\ s.version = Undef
         /\ ~Modified(s, subVersion)
         /\ s.pc # "dispatch"
         /\ s.started = <<>>
         /\ s.queue = {}
         /\ s.running = 0
         /\ ~s.persisted

\* A run ended whose retry was answered with unmodified after an earlier
\* attempt had got a version and items.
C18_Witness ==
  \E r \in Runs :
    /\ session[r].unmodified
    /\ session[r].attempts >= 2
    /\ session[r].pc = "done"
    /\ DOMAIN session[r].versions # {}

\* The keys download() requested in the batches after batch number from.
RequestedAfter(s, from) ==
  UNION {Range(s.requests[b]) : b \in (from + 1)..Len(s.requests)}

\* items holds the key at the version the manifest reports.
Cached(s, key) ==
  /\ key \in DOMAIN s.items
  /\ key \in DOMAIN s.versions
  /\ s.items[key].version = s.versions[key]

\* download() of the run's session has returned.
Downloaded(s) == ~s.skip /\ s.pc \in {"executed", "dispatch", "done"}

\* receive() pushes a parent key to the end of keys, and keys never names a
\* key twice.
PushedLast(s, t) ==
  /\ NoRepeat(t.keys)
  /\ (s.keys # <<>> /\ Len(t.keys) > Len(s.keys)) =>
       SubSeq(t.keys, 1, Len(s.keys)) = s.keys

\* C19 as claimed: a parent key that receive() finds missing from keys is
\* pushed to the end of keys, no key is pushed twice, and when download()
\* returns every pushed key was requested in a batch after the one that
\* brought it.
C19_ParentRequested ==
  [][\A r \in Runs :
       LET s == session[r]
           t == session'[r]
       IN /\ PushedLast(s, t)
          /\ Downloaded(t) =>
               \A x \in 1..Len(t.grown) :
                 t.grown[x][1] \in RequestedAfter(t, t.grown[x][2])]_vars

\* C19 as amended: the pushed key is at the end of keys, no key is pushed
\* twice, and when download() returns every pushed key was either requested
\* in a batch after the one that brought it or skipped because items holds
\* it at the version of the manifest.
C19_ParentVisited ==
  [][\A r \in Runs :
       LET s == session[r]
           t == session'[r]
       IN /\ PushedLast(s, t)
          /\ Downloaded(t) =>
               \A x \in 1..Len(t.grown) :
                 \/ t.grown[x][1] \in RequestedAfter(t, t.grown[x][2])
                 \/ Cached(t, t.grown[x][1])]_vars

\* download() returned after the parent found in its last batch was
\* requested in one more batch.
C19_Witness ==
  \E r \in Runs :
    /\ session[r].pc = "executed"
    /\ ~session[r].skip
    /\ Len(session[r].grown) = 1
    /\ Len(session[r].requests) = 2
    /\ session[r].grown[1][2] = 1
    /\ session[r].grown[1][1] \in Range(session[r].requests[2])

\* The keys download() was called with and those receive() pushed.
Worklist(s) ==
  Range(s.updated \o s.created) \cup {s.grown[x][1] : x \in 1..Len(s.grown)}

\* The requests of the current download() that name the key.
RequestsFor(s, k) == {b \in 1..Len(s.requests) : k \in Range(s.requests[b])}

\* The step of the run sends an item request.
Requesting(s, t) ==
  /\ t.pc = "batch"
  /\ s.pc \notin {"batch", "children"} \/ t.batches > s.batches

\* The step of the run goes through the selection loop of download().
Selecting(s, t) ==
  /\ ~t.skip
  /\ s.pc \in {"update", "page", "batch", "children"}
  /\ t.pc \in {"batch", "executed"}

\* C20: every item request of download() names at least 1 and at most 50
\* keys, none of them a key that items holds at the version of the
\* manifest; the keys download() passes over are held at that version; and
\* when download() returns, every key of its worklist that it did not pass
\* over as held was named in exactly one request, once.
C20_Batches ==
  [][\A r \in Runs :
       LET s == session[r]
           t == session'[r]
           kept == IF s.pc \in {"batch", "children"} THEN Len(s.skipped) ELSE 0
       IN /\ Requesting(s, t) =>
               LET b == t.requests[Len(t.requests)]
               IN /\ b = t.batch
                  /\ Len(b) >= 1
                  /\ Len(b) <= 50
                  /\ NoRepeat(b)
                  /\ \A k \in Range(b) : ~Cached(t, k)
          /\ Selecting(s, t) =>
               \A x \in 1..Len(t.skipped) :
                 x > kept => Cached(t, t.skipped[x])
          /\ \A k \in Keys : Cardinality(RequestsFor(t, k)) <= 1
          /\ (t.pc = "executed" /\ Downloaded(t)) =>
               \A k \in Worklist(t) :
                 IF k \in Range(t.skipped)
                 THEN RequestsFor(t, k) = {}
                 ELSE Cardinality(RequestsFor(t, k)) = 1]_vars

\* download() returned after a request of 50 keys and a second one for the
\* rest, without a request for the child item that came with its parent.
C20_Witness ==
  \E r \in Runs :
    /\ session[r].pc = "executed"
    /\ Len(session[r].requests) = 2
    /\ Len(session[r].requests[1]) = 50
    /\ "c" \in Range(session[r].skipped)
    /\ RequestsFor(session[r], "c") = {}
    /\ Cached(session[r], "c")

\* No step of a session takes an entry out of items.
ItemsKept(s, t) ==
  s.pc \notin {"idle", "done", "failed"} => DOMAIN s.items \subseteq DOMAIN t.items

Count(q, k) == Cardinality({n \in 1..Len(q) : q[n] = k})

\* C22 as claimed: in a session attachments[key] is assigned at most once and
\* at most one file request is sent for a key, also when two calls of
\* attachment() for the same item overlap.
C22_WriteOnce ==
  \A r \in Runs : \A k \in SmallKeys :
    /\ Count(session[r].stored, k) <= 1
    /\ Count(session[r].fetched, k) <= 1

\* C23 as claimed: the plugins of a session run one at a time and in the
\* order of the subscription's list: while the plugin at a position runs,
\* every position before it has been mapped (its plugin has completed or was
\* skipped as unavailable).
C23_ListOrder ==
  \A r \in Runs :
    session[r].running # 0 =>
      \A q \in session[r].queue : q > session[r].running

Probe(s) ==
  /\ s.pc \notin {"batch", "children", "dispatch"}
  /\ s.batches = 0
  /\ s.requests = <<>>
  /\ s.stack = <<>>
  /\ s.files = <<>>
  /\ s.fetched = <<>>
  /\ s.items = EmptyMap
  /\ s.attachments = EmptyMap
  /\ s.queue = {}
  /\ s.running = 0
  /\ s.started = <<>>

\* The session holds the version and the manifest of an answer of the server
\* and their difference to the subscription's manifest.
Updated(s, earlier) ==
  LET d == Diff(s, s.versions, earlier)
  IN /\ s.version # Undef
     /\ s.created = d.created
     /\ s.updated = d.updated
     /\ s.deleted = d.deleted

\* C25: a run with skip = true sends no request for items, children or
\* attachments, leaves items as it was and starts no plugin; it still takes
\* the version, the manifest and the diff sets from the server's answer, and
\* when the session is modified it stores the session's version and versions
\* in the subscription.
C25_Probe ==
  [][\A r \in Runs :
       session'[r].skip =>
         /\ Probe(session'[r])
         /\ (session[r].pc # "executed" /\ session'[r].pc = "executed"
               /\ ~session'[r].unmodified) =>
              Updated(session'[r], subVersions)
         /\ (session[r].pc = "executed" /\ session'[r].pc = "done"
               /\ Modified(session[r], subVersion)) =>
              /\ session'[r].persisted
              /\ subVersion' = session[r].version
              /\ subVersions' = session[r].versions]_vars

\* A run with skip = true found the library newer and has stored its version
\* and its manifest, which names new items, in the subscription.
C25_Witness ==
  \E r \in Runs :
    /\ session[r].skip
    /\ session[r].pc = "done"
    /\ session[r].persisted
    /\ session[r].created # <<>>
    /\ session[r].items = EmptyMap
    /\ subVersion = session[r].version
    /\ subVersions = session[r].versions
    /\ subVersion > 0

\* C26 as claimed: a call of add() whose request was sent without error and
\* which the stream has answered with subscriptionsCreated is settled in the
\* end, whichever of the callback of subscribe() and the event comes first.
C26_EventuallySettled ==
  \A call \in 1..MaxAdds :
    (/\ call <= Len(adds)
     /\ adds[call].answered
     /\ adds[call].promise = "pending")
    ~> (/\ call <= Len(adds)
        /\ adds[call].promise \in {"resolved", "rejected"})

\* The positions of the subscription's plugins list whose plugin is
\* registered.
Registered == {p \in 1..Len(SubPlugins) : SubPlugins[p] \in Available}

\* C27: a plugin descriptor whose name is not registered is passed over:
\* its plugin is not started, dispatch() goes on and does not fail, and a
\* dispatch() no plugin fails has started every registered plugin of the
\* list.
C27_UnknownSkipped ==
  [][\A r \in Runs :
       /\ \A p \in session[r].queue \ session'[r].queue :
            (session[r].pc = "dispatch" /\ p \notin Registered) =>
              /\ session'[r].pc = "dispatch"
              /\ session'[r].running = 0
              /\ session'[r].started = session[r].started
              /\ session'[r].error = session[r].error
       /\ (session[r].pc = "dispatch" /\ session'[r].pc = "done") =>
            Range(session'[r].started) = Registered]_vars

\* Dispatch has passed over the unregistered name at position 2 and has then
\* run the plugin at position 3 to its end.
C27_Witness ==
  \E r \in Runs :
    /\ session[r].pc = "done"
    /\ session[r].persisted
    /\ session[r].started = <<1, 3>>
    /\ session[r].queue = {}

\* C28 as claimed: when execute() has returned without skip, every item of
\* items that reports children holds them inline and items holds each of
\* them, also after an attempt that was interrupted while it fetched the
\* item's children. Stated for the items the server still holds at the
\* cached version and with children.
C28_ChildrenFetched ==
  \A r \in Runs :
    (session[r].pc = "executed" /\ ~session[r].skip) =>
      \A k \in DOMAIN session[r].items \cap DOMAIN remoteItems :
        (/\ session[r].items[k].numChildren > 0
         /\ session[r].items[k].version = remoteItems[k]
         /\ RemoteChildren(remoteItems, k) # <<>>) =>
          /\ session[r].items[k].children # NoChildren
          /\ Range(session[r].items[k].children) \subseteq DOMAIN session[r].items

\* download() is suspended at one of its requests.
Downloading(s) == s.pc \in {"batch", "children"}

\* C29: download() ends whatever the server's answers leave out and whatever
\* parent links they carry: the cursor i never moves back and keys only
\* grows at its end, keys names no key twice, every request has moved the
\* cursor, so there are no more requests than keys, and a download() that
\* waits for an answer is left in the end.
C29_Terminates ==
  /\ [][\A r \in Runs :
          (Downloading(session[r]) /\ Downloading(session'[r])) =>
            /\ session'[r].i >= session[r].i
            /\ Len(session'[r].keys) >= Len(session[r].keys)
            /\ SubSeq(session'[r].keys, 1, Len(session[r].keys)) = session[r].keys]_vars
  /\ [](\A r \in Runs :
          Downloading(session[r]) =>
            /\ NoRepeat(session[r].keys)
            /\ session[r].i <= Len(session[r].keys) + 1
            /\ Len(session[r].requests) <= session[r].i - 1
            /\ Len(session[r].requests) <= Cardinality(Range(session[r].keys)))
  /\ \A r \in Runs :
       Downloading(session[r]) ~> ~Downloading(session[r])

\* A download() has returned after the server left an item out of an answer
\* and sent two items that name each other as parent, of which one was
\* pushed to keys.
C29_Witness ==
  \E r \in Runs :
    /\ session[r].pc = "executed"
    /\ session[r].omitted # {}
    /\ session[r].grown # <<>>
    /\ {"a", "c"} \subseteq DOMAIN session[r].items
    /\ session[r].items["a"].parentItem = "c"
    /\ session[r].items["c"].parentItem = "a"

\* C30 as claimed: updated() returns after a finite number of events and
\* leaves pending and current as they were. Its loop reads current and the
\* notification only, so a call that returns runs no pass that leaves both
\* as they were and is followed by another pass.
C30_Returns ==
  [][hung =>
       \/ ~hung'
       \/ current' # current
       \/ updating' # updating]_vars

====
